---- MODULE Spec2Model ----
(***************************************************************************)
(* Model of the socket.io relay in src/server.js: the session registry     *)
(* (activeConnections, userStatus), the group membership store             *)
(* (groupRooms, userGroups), the friend request ledger (friendRequests)    *)
(* and the event handlers registered per connection.                       *)
(*                                                                         *)
(* Node runs every handler to completion, so each handler is one action.   *)
(* Identities, socket handles and group ids are small integers; 0 stands   *)
(* for a falsy / absent value (undefined token, missing field, no socket). *)
(* Generated message ids and timestamps are passed through by the code     *)
(* without being inspected and are left out of the payloads.               *)
(***************************************************************************)
EXTENDS Integers, Sequences, FiniteSets, TLC

\* ---- bounds ----
MaxUsers == 2
MaxSocks == 3
MaxGroups == 2
MaxMembers == 2
MaxReqs == 2
MaxGroupSocks == 2

\* ---- values ----
NoUser == 0
NoSock == 0
NoRoom == 0
Users == 1..MaxUsers
Ids == Users \cup {NoUser}
Socks == 1..MaxSocks
GroupSocks == 1..MaxGroupSocks
GroupIds == 1..MaxGroups
AdHocRoom == MaxGroups + 1
RoomIds == GroupIds \cup {AdHocRoom}
Names == {"", "g"}
Contents == {"", "hi"}
FileUrls == {"", "/uploads/f"}

MemberLists == UNION {[1..n -> Users] : n \in 0..MaxMembers}

VARIABLES
  running,            \* the node process is alive
  sockState,          \* per handle: "new", "open", "closed"
  sockUser,           \* per handle: the userId captured by the connection closure
  rooms,              \* socket.io adapter: room id -> set of handles joined
  activeConnections,  \* Map userId -> socket, as a set of <<key, value>> entries
  userStatus,         \* Map userId -> status
  groupRooms,         \* Map groupId -> [userIds]
  userGroups,         \* Map userId -> [groupIds]
  friendRequests,     \* array of {sender_id, receiver_id, status}
  last,               \* the inbound event handled by the last step
  out                 \* the outbound events emitted by the last step, in order

vars == <<running, sockState, sockUser, rooms, activeConnections, userStatus,
          groupRooms, userGroups, friendRequests, last, out>>

\* ---- Map and array helpers ----
MapHas(m, k) == k \in DOMAIN m

MapSet(m, k, v) == [x \in (DOMAIN m) \cup {k} |-> IF x = k THEN v ELSE m[x]]

Includes(arr, x) == \E i \in 1..Len(arr) : arr[i] = x

Elems(arr) == {arr[i] : i \in 1..Len(arr)}

\* variant: set(k, v) adds an entry and keeps the one already stored for k
AcSetKeepOld(ac, k, v) == ac \cup {<<k, v>>}

\* activeConnections.set(k, v): the entry for k is replaced
AcSet(ac, k, v) == {e \in ac : e[1] # k} \cup {<<k, v>>}

\* variant: the entry is left in place (the identity is only marked offline)
AcDeleteNothing(ac, k) == ac

\* activeConnections.delete(k)
AcDelete(ac, k) == {e \in ac : e[1] # k}

\* variant: the recipient is looked up in the `users` map, which nothing fills
AcGetUsers(ac, k) == NoSock

\* activeConnections.get(k), NoSock when there is no entry
AcGet(ac, k) ==
  IF \E e \in ac : e[1] = k THEN (CHOOSE e \in ac : e[1] = k)[2] ELSE NoSock

\* userGroups.get(u) when present, the empty list otherwise
GroupsOf(ug, u) == IF MapHas(ug, u) THEN ug[u] ELSE <<>>

\* ---- emission helpers ----
RECURSIVE SetToSeq(_)
SetToSeq(S) ==
  IF S = {} THEN <<>>
  ELSE LET m == CHOOSE x \in S : \A y \in S : x <= y
       IN <<m>> \o SetToSeq(S \ {m})

\* payload ev delivered to every handle of T
EmitTo(T, ev) == [i \in 1..Cardinality(T) |-> [to |-> SetToSeq(T)[i]] @@ ev]

\* socket.to(groupId).emit('member-status', ...) for each groupId of the list
RECURSIVE MemberStatusFanout(_, _, _, _, _)
MemberStatusFanout(rm, groups, s, u, st) ==
  IF groups = <<>> THEN <<>>
  ELSE EmitTo(rm[Head(groups)] \ {s},
              [ev |-> "member-status", userId |-> u, status |-> st])
       \o MemberStatusFanout(rm, Tail(groups), s, u, st)

Init ==
  /\ running = TRUE
  /\ sockState = [s \in Socks |-> "new"]
  /\ sockUser = [s \in Socks |-> NoUser]
  /\ rooms = [r \in RoomIds |-> {}]
  /\ activeConnections = {}
  /\ userStatus = <<>>
  /\ groupRooms = <<>>
  /\ userGroups = <<>>
  /\ friendRequests = <<>>
  /\ last = [kind |-> "start"]
  /\ out = <<>>

\* io.on('connection'): handle s connects with auth token `token`
Connect(s, token) ==
  /\ running
  /\ sockState[s] = "new"
  /\ sockState' = [sockState EXCEPT ![s] = "open"]
  /\ sockUser' = [sockUser EXCEPT ![s] = token]
  /\ IF token # NoUser
     THEN /\ activeConnections' = AcSet(activeConnections, token, s)
          /\ userStatus' = MapSet(userStatus, token, "online")
          /\ out' = MemberStatusFanout(rooms, GroupsOf(userGroups, token),
                                       s, token, "online")
     ELSE /\ UNCHANGED <<activeConnections, userStatus>>
          /\ out' = <<>>
  /\ last' = [kind |-> "connect", sock |-> s, token |-> token]
  /\ UNCHANGED <<running, rooms, groupRooms, userGroups, friendRequests>>

\* members || [userId]: an empty array is truthy and is stored as given
InitialMembers(hasMembers, members, userId) ==
  IF hasMembers THEN members ELSE <<userId>>

\* socket.on('create_group')
CreateGroup(s, name, hasMembers, members) ==
  /\ running
  /\ sockState[s] = "open"
  /\ last' = [kind |-> "create_group", sock |-> s, name |-> name,
              hasMembers |-> hasMembers, members |-> members]
  /\ IF name = ""
     THEN /\ out' = <<>>
          /\ UNCHANGED <<rooms, groupRooms, userGroups>>
     ELSE LET userId == sockUser[s]
              groupId == Len(groupRooms) + 1
          IN /\ groupId <= MaxGroups
             /\ groupRooms' = Append(groupRooms,
                                     InitialMembers(hasMembers, members, userId))
             /\ userGroups' = MapSet(userGroups, userId,
                                     Append(GroupsOf(userGroups, userId), groupId))
             /\ rooms' = [rooms EXCEPT ![groupId] = @ \cup {s}]
             /\ out' = <<[to |-> s, ev |-> "group_created",
                          group_id |-> groupId, name |-> name]>>
  /\ UNCHANGED <<running, sockState, sockUser, activeConnections, userStatus,
                 friendRequests>>

\* if (!members.includes(userId)) members.push(userId)
PushIfAbsent(arr, x) == IF Includes(arr, x) THEN arr ELSE Append(arr, x)

\* variant: every joined room is treated as a group
IsGroupAlways(gr, room_id) == TRUE

\* if (groupRooms.has(room_id)): the room is a created group
IsGroup(gr, room_id) == MapHas(gr, room_id)

\* socket.on('join_room')
JoinRoom(s, room_id) ==
  /\ running
  /\ sockState[s] = "open"
  /\ last' = [kind |-> "join_room", sock |-> s, room_id |-> room_id]
  /\ out' = <<>>
  /\ IF room_id = NoRoom
     THEN UNCHANGED <<rooms, groupRooms, userGroups>>
     ELSE LET userId == sockUser[s]
          IN /\ rooms' = [rooms EXCEPT ![room_id] = @ \cup {s}]
             /\ IF IsGroup(groupRooms, room_id)
                THEN /\ groupRooms' = [groupRooms EXCEPT
                                         ![room_id] = PushIfAbsent(@, userId)]
                     /\ userGroups' = MapSet(userGroups, userId,
                                        PushIfAbsent(GroupsOf(userGroups, userId),
                                                     room_id))
                ELSE UNCHANGED <<groupRooms, userGroups>>
  /\ UNCHANGED <<running, sockState, sockUser, activeConnections, userStatus,
                 friendRequests>>

\* socket.on('group_message'): io.to(group_id).emit('receive-message', message)
GroupMessage(s, group_id, content, fileUrl) ==
  /\ running
  /\ sockState[s] = "open"
  /\ last' = [kind |-> "group_message", sock |-> s, group_id |-> group_id,
              content |-> content, fileUrl |-> fileUrl]
  /\ IF group_id = NoRoom \/ (content = "" /\ fileUrl = "")
     THEN out' = <<>>
     ELSE out' = EmitTo(rooms[group_id],
                        [ev |-> "receive-message", group_id |-> group_id,
                         sender |-> sockUser[s], content |-> content,
                         type |-> "text", fileUrl |-> fileUrl])
  /\ UNCHANGED <<running, sockState, sockUser, rooms, activeConnections,
                 userStatus, groupRooms, userGroups, friendRequests>>

\* socket.on('send-message'); reading message.content of an absent message
\* throws inside the handler and nothing catches it
SendMessage(s, contactId, hasMessage, message) ==
  /\ running
  /\ sockState[s] = "open"
  /\ last' = [kind |-> "send-message", sock |-> s, contactId |-> contactId,
              hasMessage |-> hasMessage, message |-> message]
  /\ IF contactId = NoUser
     THEN /\ out' = <<>>
          /\ UNCHANGED running
     ELSE IF ~hasMessage
     THEN /\ out' = <<>>
          /\ running' = FALSE
     ELSE /\ UNCHANGED running
          /\ IF message.content = "" /\ message.fileUrl = ""
             THEN out' = <<>>
             ELSE LET recipientSocket == AcGet(activeConnections, contactId)
                  IN IF recipientSocket # NoSock
                     THEN out' = <<[to |-> recipientSocket,
                                    ev |-> "receive-message",
                                    message |-> message]>>
                     ELSE out' = <<>>
  /\ UNCHANGED <<sockState, sockUser, rooms, activeConnections, userStatus,
                 groupRooms, userGroups, friendRequests>>

\* variant: the lookup compares the pair the wrong way round
FindPendingSwapped(fr, sender, receiver) ==
  \E i \in 1..Len(fr) : /\ fr[i].sender_id = receiver
                        /\ fr[i].receiver_id = sender
                        /\ fr[i].status = "pending"

\* variant: symmetric de-duplication, a pending record of either direction counts
FindPendingEitherWay(fr, sender, receiver) ==
  \E i \in 1..Len(fr) :
    /\ \/ fr[i].sender_id = sender /\ fr[i].receiver_id = receiver
       \/ fr[i].sender_id = receiver /\ fr[i].receiver_id = sender
    /\ fr[i].status = "pending"

\* variant: the lookup forgets the status test and matches resolved records
FindPendingAnyStatus(fr, sender, receiver) ==
  \E i \in 1..Len(fr) : /\ fr[i].sender_id = sender
                        /\ fr[i].receiver_id = receiver

\* friendRequests.find(req => sender_id === userId && receiver_id === receiver_id
\*                            && status === 'pending') is not undefined
FindPending(fr, sender, receiver) ==
  \E i \in 1..Len(fr) : /\ fr[i].sender_id = sender
                        /\ fr[i].receiver_id = receiver
                        /\ fr[i].status = "pending"

\* socket.on('friend_request')
FriendRequest(s, receiver_id) ==
  /\ running
  /\ sockState[s] = "open"
  /\ last' = [kind |-> "friend_request", sock |-> s, receiver_id |-> receiver_id]
  /\ IF receiver_id = NoUser
     THEN /\ out' = <<>>
          /\ UNCHANGED friendRequests
     ELSE LET userId == sockUser[s]
          IN IF FindPending(friendRequests, userId, receiver_id)
             THEN /\ out' = <<[to |-> s, ev |-> "friend_request_sent",
                               receiver |-> receiver_id,
                               status |-> "already_sent"]>>
                  /\ UNCHANGED friendRequests
             ELSE /\ Len(friendRequests) < MaxReqs
                  /\ friendRequests' = Append(friendRequests,
                        [sender_id |-> userId, receiver_id |-> receiver_id,
                         status |-> "pending"])
                  /\ LET receiverSocket == AcGet(activeConnections, receiver_id)
                     IN out' =
                          (IF receiverSocket # NoSock
                           THEN <<[to |-> receiverSocket, ev |-> "friend_request",
                                   sender |-> userId]>>
                           ELSE <<>>)
                          \o <<[to |-> s, ev |-> "friend_request_sent",
                                receiver |-> receiver_id, status |-> "sent"]>>
  /\ UNCHANGED <<running, sockState, sockUser, rooms, activeConnections,
                 userStatus, groupRooms, userGroups>>

\* variant: the index lookup forgets the status test
FindIndexAnyStatus(fr, sender, responder) ==
  LET hits == {i \in 1..Len(fr) : /\ fr[i].sender_id = sender
                                  /\ fr[i].receiver_id = responder}
  IN IF hits = {} THEN 0 ELSE CHOOSE i \in hits : \A j \in hits : i <= j

\* variant: the index lookup forgets to compare the receiver
FindIndexAnyReceiver(fr, sender, responder) ==
  LET hits == {i \in 1..Len(fr) : /\ fr[i].sender_id = sender
                                  /\ fr[i].status = "pending"}
  IN IF hits = {} THEN 0 ELSE CHOOSE i \in hits : \A j \in hits : i <= j

\* friendRequests.findIndex(...): the first pending record sender -> responder,
\* 0 when there is none (the code's -1)
FindPendingIndex(fr, sender, responder) ==
  LET hits == {i \in 1..Len(fr) : /\ fr[i].sender_id = sender
                                  /\ fr[i].receiver_id = responder
                                  /\ fr[i].status = "pending"}
  IN IF hits = {} THEN 0 ELSE CHOOSE i \in hits : \A j \in hits : i <= j

\* socket.on('friend_request_response')
FriendRequestResponse(s, sender_id, accepted) ==
  /\ running
  /\ sockState[s] = "open"
  /\ last' = [kind |-> "friend_request_response", sock |-> s,
              sender_id |-> sender_id, accepted |-> accepted]
  /\ IF sender_id = NoUser
     THEN /\ out' = <<>>
          /\ UNCHANGED friendRequests
     ELSE LET userId == sockUser[s]
              requestIndex == FindPendingIndex(friendRequests, sender_id, userId)
          IN IF requestIndex = 0
             THEN /\ out' = <<[to |-> s, ev |-> "friend_request_response_sent",
                               sender |-> sender_id, status |-> "not_found"]>>
                  /\ UNCHANGED friendRequests
             ELSE /\ friendRequests' =
                       [friendRequests EXCEPT ![requestIndex].status =
                          IF accepted THEN "accepted" ELSE "rejected"]
                  /\ LET senderSocket == AcGet(activeConnections, sender_id)
                     IN out' =
                          (IF senderSocket # NoSock
                           THEN <<[to |-> senderSocket,
                                   ev |-> "friend_request_response",
                                   receiver |-> userId, accepted |-> accepted]>>
                           ELSE <<>>)
                          \o <<[to |-> s, ev |-> "friend_request_response_sent",
                                sender |-> sender_id, accepted |-> accepted]>>
  /\ UNCHANGED <<running, sockState, sockUser, rooms, activeConnections,
                 userStatus, groupRooms, userGroups>>

\* socket.on('disconnect'): the transport has already taken the handle out of
\* its rooms when the handler runs
Disconnect(s) ==
  /\ running
  /\ sockState[s] = "open"
  /\ sockState' = [sockState EXCEPT ![s] = "closed"]
  /\ rooms' = [r \in RoomIds |-> rooms[r] \ {s}]
  /\ last' = [kind |-> "disconnect", sock |-> s]
  /\ LET userId == sockUser[s]
     IN IF userId # NoUser
        THEN /\ activeConnections' = AcDelete(activeConnections, userId)
             /\ userStatus' = MapSet(userStatus, userId, "offline")
             /\ out' = MemberStatusFanout(rooms', GroupsOf(userGroups, userId),
                                          s, userId, "offline")
        ELSE /\ UNCHANGED <<activeConnections, userStatus>>
             /\ out' = <<>>
  /\ UNCHANGED <<running, sockUser, groupRooms, userGroups, friendRequests>>

(***************************************************************************)
(* Specifications.  The three stores are touched by disjoint groups of     *)
(* handlers: the ledger handlers read activeConnections and write only     *)
(* friendRequests, the group handlers write only groupRooms, userGroups    *)
(* and the rooms, send-message writes nothing.  Every group is explored    *)
(* together with connect and disconnect, which all of them depend on.      *)
(***************************************************************************)

\* connect / send-message / disconnect
NextSession ==
  \/ \E s \in Socks, token \in Ids : Connect(s, token)
  \/ \E s \in Socks, contactId \in Ids, content \in Contents, fileUrl \in FileUrls :
       SendMessage(s, contactId, TRUE, [content |-> content, fileUrl |-> fileUrl])
  \/ \E s \in Socks, contactId \in Ids :
       SendMessage(s, contactId, FALSE, [content |-> "", fileUrl |-> ""])
  \/ \E s \in Socks : Disconnect(s)

SpecSession == Init /\ [][NextSession]_vars

\* connect / friend_request / friend_request_response / disconnect
NextLedger ==
  \/ \E s \in Socks, token \in Ids : Connect(s, token)
  \/ \E s \in Socks, receiver_id \in Ids : FriendRequest(s, receiver_id)
  \/ \E s \in Socks, sender_id \in Ids, accepted \in BOOLEAN :
       FriendRequestResponse(s, sender_id, accepted)
  \/ \E s \in Socks : Disconnect(s)

SpecLedger == Init /\ [][NextLedger]_vars

\* connect / create_group / join_room / group_message / disconnect
NextGroups ==
  \/ \E s \in GroupSocks, token \in Users : Connect(s, token)
  \/ \E s \in GroupSocks, members \in MemberLists :
       CreateGroup(s, "g", TRUE, members)
  \/ \E s \in GroupSocks, name \in Names : CreateGroup(s, name, FALSE, <<>>)
  \/ \E s \in GroupSocks, room_id \in (DOMAIN groupRooms) \cup {AdHocRoom, NoRoom} :
       JoinRoom(s, room_id)
  \/ \E s \in GroupSocks, group_id \in (DOMAIN groupRooms) \cup {AdHocRoom},
        m \in {<<"hi", "">>, <<"", "/uploads/f">>} :
       GroupMessage(s, group_id, m[1], m[2])
  \/ \E s \in GroupSocks, m \in {<<NoRoom, "hi">>, <<1, "">>} :
       GroupMessage(s, m[1], m[2], "")
  \/ \E s \in GroupSocks : Disconnect(s)

SpecGroups == Init /\ [][NextGroups]_vars

\* the handlers that look a recipient up in the registry: connect, send-message,
\* friend_request, friend_request_response, disconnect
NextRouting ==
  \/ NextLedger
  \/ \E s \in Socks, contactId \in Users :
       SendMessage(s, contactId, TRUE, [content |-> "hi", fileUrl |-> ""])

SpecRouting == Init /\ [][NextRouting]_vars

Next == NextSession \/ NextLedger \/ NextGroups \/ NextRouting

Spec == Init /\ [][Next]_vars

(***************************************************************************)
(* Properties                                                              *)
(***************************************************************************)

\* the handles the registry holds for identity u
HandlesOf(u) == {e[2] : e \in {x \in activeConnections : x[1] = u}}

\* the positions of the ledger records fr holds for the ordered pair (a, b)
RecordsOf(fr, a, b) ==
  {i \in 1..Len(fr) : fr[i].sender_id = a /\ fr[i].receiver_id = b}

PendingOf(fr, a, b) == {i \in RecordsOf(fr, a, b) : fr[i].status = "pending"}

ResolvedOf(fr, a, b) == {i \in RecordsOf(fr, a, b) : fr[i].status # "pending"}

PendingRecord(a, b) == [sender_id |-> a, receiver_id |-> b, status |-> "pending"]

FriendRequestSent(s, r, st) ==
  [to |-> s, ev |-> "friend_request_sent", receiver |-> r, status |-> st]

NotFound(s, a) ==
  [to |-> s, ev |-> "friend_request_response_sent", sender |-> a,
   status |-> "not_found"]

\* the step handles a well-formed friend_request
IsFriendRequestStep == last'.kind = "friend_request" /\ last'.receiver_id # NoUser

\* the caller of the step's event is authenticated and names another identity
IsPlainPair ==
  /\ sockUser[last'.sock] \in Users
  /\ sockUser[last'.sock] # last'.receiver_id

\* the step handles a well-formed friend_request_response
IsResponseStep == last'.kind = "friend_request_response" /\ last'.sender_id # NoUser

\* C1: last-connect-wins. In every reachable state an identity has at most one
\* handle in the registry, and right after a connection authenticated as A
\* (also when another connection of A is still open) the registry holds
\* exactly the handle that connected last for A.
C1_LastConnectWins ==
  /\ \A u \in Users : Cardinality(HandlesOf(u)) <= 1
  /\ (last.kind = "connect" /\ last.token # NoUser)
       => HandlesOf(last.token) = {last.sock}

\* C1 witness: h2 has just connected as A while an earlier connection h1 of A
\* is still open
C1_Witness ==
  /\ last.kind = "connect"
  /\ last.token # NoUser
  /\ \E h1 \in Socks : /\ h1 # last.sock
                       /\ sockState[h1] = "open"
                       /\ sockUser[h1] = last.token

\* the number of events of out addressed to handle h that satisfy P
CountTo(h, P(_)) == Cardinality({i \in 1..Len(out) : out[i].to = h /\ P(out[i])})

\* the groups whose member list names both a and b
SharedGroups(a, b) ==
  {g \in DOMAIN groupRooms : a \in Elems(groupRooms[g]) /\ b \in Elems(groupRooms[g])}

\* no identity has used more than one connection so far
OneConnectionEach ==
  \A h1 \in Socks, h2 \in Socks :
    (h1 # h2 /\ sockState[h1] # "new" /\ sockState[h2] # "new")
      => sockUser[h1] # sockUser[h2]

\* C2: membership index consistency. In every reachable state identity u is in
\* the member list groupRooms[G] if and only if G is in userGroups[u].
C2_IndexConsistent ==
  \A g \in DOMAIN groupRooms, u \in Ids :
    (u \in Elems(groupRooms[g])) <=> (g \in Elems(GroupsOf(userGroups, u)))

\* C3: right after a create_group with a name by creator c with member list M
\* (absent, empty or any list) the new group G has membersOf(G) = M \cup {c}
\* and G is in groupsOf(u) for every u of M \cup {c}.
C3_CreateGroupMembers ==
  (last.kind = "create_group" /\ last.name # "")
    => LET G == Len(groupRooms)
           c == sockUser[last.sock]
           M == IF last.hasMembers THEN Elems(last.members) ELSE {}
       IN /\ Elems(groupRooms[G]) = M \cup {c}
          /\ \A u \in M \cup {c} : G \in Elems(GroupsOf(userGroups, u))

\* C8: group message fan-out, stated for runs in which every identity has used
\* a single connection. Right after a well-formed group_message to group
\* G every identity of membersOf(G) that has a registered session has received
\* exactly one receive-message with the sender's identity, the content and
\* group_id = G on that session.
C8_GroupFanout ==
  (/\ OneConnectionEach
   /\ last.kind = "group_message"
   /\ last.group_id \in DOMAIN groupRooms
   /\ (last.content # "" \/ last.fileUrl # ""))
    => \A u \in Elems(groupRooms[last.group_id]) : \A h \in HandlesOf(u) :
         /\ CountTo(h, LAMBDA e : e.ev = "receive-message") = 1
         /\ \A i \in 1..Len(out) :
              out[i].to = h => /\ out[i].sender = sockUser[last.sock]
                               /\ out[i].content = last.content
                               /\ out[i].group_id = last.group_id

\* C9: disconnect fan-out, stated for runs in which every identity has used a
\* single connection. Right after the disconnect of identity A the
\* registry has no entry for A, and every other identity with a registered
\* session has received member-status{userId: A, status: 'offline'} once per
\* group whose member list it shares with A.
C9_DisconnectFanout ==
  (OneConnectionEach /\ last.kind = "disconnect" /\ sockUser[last.sock] \in Users)
    => LET A == sockUser[last.sock]
       IN /\ HandlesOf(A) = {}
          /\ \A u \in Users \ {A} : \A h \in HandlesOf(u) :
               CountTo(h, LAMBDA e : /\ e.ev = "member-status"
                                     /\ e.userId = A
                                     /\ e.status = "offline")
                 = Cardinality(SharedGroups(A, u))

\* C4: pending uniqueness. In every reachable state the ledger holds at most
\* one pending record for each ordered (sender, receiver) pair.
C4_PendingUnique ==
  \A a \in Ids, b \in Ids : Cardinality(PendingOf(friendRequests, a, b)) <= 1

\* C4 witness: a repeated request has just been turned away while the pair's
\* pending record is in the ledger
C4_Witness ==
  /\ last.kind = "friend_request"
  /\ last.receiver_id # NoUser
  /\ out = <<FriendRequestSent(last.sock, last.receiver_id, "already_sent")>>
  /\ PendingOf(friendRequests, sockUser[last.sock], last.receiver_id) # {}

\* C5 as stated, for an authenticated sender and a receiver other than the
\* sender: a friend_request for a pair without a pending record is acked
\* 'sent' and appends the record; a further friend_request for the pair before
\* any response is acked 'already_sent' to the caller only and appends nothing,
\* and the ledger then holds exactly one record (of any status) for the pair.
C5_Original ==
  [][(IsFriendRequestStep /\ IsPlainPair) =>
       LET s == last'.sock
           a == sockUser[last'.sock]
           b == last'.receiver_id
       IN IF PendingOf(friendRequests, a, b) = {}
          THEN /\ out'[Len(out')] = FriendRequestSent(s, b, "sent")
               /\ friendRequests' = Append(friendRequests, PendingRecord(a, b))
          ELSE /\ out' = <<FriendRequestSent(s, b, "already_sent")>>
               /\ friendRequests' = friendRequests
               /\ Cardinality(RecordsOf(friendRequests', a, b)) = 1]_vars

\* C5 amended: as above, and after the second request the ledger holds exactly
\* one pending record for the pair; resolved records of earlier requests of
\* the pair stay in the ledger beside it.
C5_RequestTwice ==
  [][IsFriendRequestStep =>
       LET s == last'.sock
           a == sockUser[last'.sock]
           b == last'.receiver_id
       IN IF PendingOf(friendRequests, a, b) = {}
          THEN /\ out'[Len(out')] = FriendRequestSent(s, b, "sent")
               /\ \A i \in 1..(Len(out') - 1) : out'[i].ev # "friend_request_sent"
               /\ friendRequests' = Append(friendRequests, PendingRecord(a, b))
          ELSE /\ out' = <<FriendRequestSent(s, b, "already_sent")>>
               /\ friendRequests' = friendRequests
               /\ Cardinality(PendingOf(friendRequests', a, b)) = 1]_vars

\* C5 witness: the second of two requests has been acked 'already_sent'
C5_Witness ==
  /\ last.kind = "friend_request"
  /\ last.receiver_id # NoUser
  /\ Len(out) = 1
  /\ out[1].status = "already_sent"
  /\ Cardinality(PendingOf(friendRequests, sockUser[last.sock],
                           last.receiver_id)) = 1

\* C6: resolution is final. No step removes a record or changes its sender or
\* receiver; a status changes only from 'pending' to 'accepted' or 'rejected';
\* and a friend_request_response for a pair whose record is resolved, with no
\* new request pending, is answered 'not_found' and leaves the ledger as it is.
C6_ResolutionFinal ==
  [][/\ Len(friendRequests') >= Len(friendRequests)
     /\ \A i \in 1..Len(friendRequests) :
          /\ friendRequests'[i].sender_id = friendRequests[i].sender_id
          /\ friendRequests'[i].receiver_id = friendRequests[i].receiver_id
          /\ friendRequests'[i].status # friendRequests[i].status
               => /\ friendRequests[i].status = "pending"
                  /\ friendRequests'[i].status \in {"accepted", "rejected"}
     /\ IsResponseStep =>
          LET s == last'.sock
              a == last'.sender_id
              b == sockUser[last'.sock]
          IN (ResolvedOf(friendRequests, a, b) # {}
                /\ PendingOf(friendRequests, a, b) = {})
               => /\ out' = <<NotFound(s, a)>>
                  /\ friendRequests' = friendRequests]_vars

\* C6 witness: a second response to a resolved record has been answered
\* 'not_found'
C6_Witness ==
  /\ last.kind = "friend_request_response"
  /\ last.sender_id # NoUser
  /\ out = <<NotFound(last.sock, last.sender_id)>>
  /\ ResolvedOf(friendRequests, last.sender_id, sockUser[last.sock]) # {}

\* C7: a friend_request_response naming sender S when the ledger holds no
\* pending record from S to the responder emits exactly one event, the
\* 'not_found' ack to the responding connection (so nothing reaches S's
\* session), and leaves the ledger unchanged.
C7_NotFound ==
  [][IsResponseStep =>
       LET s == last'.sock
           a == last'.sender_id
           b == sockUser[last'.sock]
       IN PendingOf(friendRequests, a, b) = {}
            => /\ out' = <<NotFound(s, a)>>
               /\ friendRequests' = friendRequests]_vars

\* C7 witness: the responder got 'not_found' while S has a registered session
\* on another connection
C7_Witness ==
  /\ last.kind = "friend_request_response"
  /\ last.sender_id # NoUser
  /\ out = <<NotFound(last.sock, last.sender_id)>>
  /\ HandlesOf(last.sender_id) # {}
  /\ last.sock \notin HandlesOf(last.sender_id)

\* C10 as stated, for an authenticated A and B other than A: a friend_request
\* from A to B while B has no registered
\* session is acked 'sent' to A and nothing else is emitted, a pending (A, B)
\* record is in the ledger, and no connect emits a friend_request event.
C10_Original ==
  [][/\ (IsFriendRequestStep /\ IsPlainPair /\ HandlesOf(last'.receiver_id) = {})
          => /\ out' = <<FriendRequestSent(last'.sock, last'.receiver_id, "sent")>>
             /\ PendingOf(friendRequests', sockUser[last'.sock],
                          last'.receiver_id) # {}
     /\ last'.kind = "connect"
          => \A i \in 1..Len(out') : out'[i].ev # "friend_request"]_vars

\* C10 amended: a friend_request from A to B while B has no registered session
\* and no (A, B) record is pending yet is acked 'sent' to A and appends the
\* pending record; a repeated one is acked 'already_sent'; either way the ack
\* is the only event emitted, the pending (A, B) record is in the ledger, and
\* no connect, B's included, emits a friend_request event.
C10_NoQueuing ==
  [][/\ (IsFriendRequestStep /\ HandlesOf(last'.receiver_id) = {})
          => LET s == last'.sock
                 a == sockUser[last'.sock]
                 b == last'.receiver_id
             IN /\ out' = <<FriendRequestSent(s, b,
                              IF PendingOf(friendRequests, a, b) = {}
                              THEN "sent" ELSE "already_sent")>>
                /\ Cardinality(PendingOf(friendRequests', a, b)) = 1
                /\ PendingOf(friendRequests, a, b) = {}
                     => friendRequests' = Append(friendRequests, PendingRecord(a, b))
     /\ last'.kind = "connect"
          => \A i \in 1..Len(out') : out'[i].ev # "friend_request"]_vars

\* C10 witness: B has just connected for the first time while a pending
\* request addressed to B, made when B had no session, is in the ledger
C10_Witness ==
  /\ last.kind = "connect"
  /\ last.token # NoUser
  /\ \A h \in Socks \ {last.sock} : sockUser[h] # last.token
  /\ \E a \in Ids : PendingOf(friendRequests, a, last.token) # {}

\* the step handles an event that lacks a field its handler requires
MalformedStep ==
  \/ last'.kind = "create_group" /\ last'.name = ""
  \/ last'.kind = "join_room" /\ last'.room_id = NoRoom
  \/ /\ last'.kind = "group_message"
     /\ (last'.group_id = NoRoom \/ (last'.content = "" /\ last'.fileUrl = ""))
  \/ /\ last'.kind = "send-message"
     /\ \/ last'.contactId = NoUser
        \/ ~last'.hasMessage
        \/ (last'.message.content = "" /\ last'.message.fileUrl = "")
  \/ last'.kind = "friend_request" /\ last'.receiver_id = NoUser
  \/ last'.kind = "friend_request_response" /\ last'.sender_id = NoUser

\* C11: malformed events are dropped. A step that handles an event of an
\* authenticated connection lacking a required field changes none of the stores, emits nothing, and ends neither
\* the connection nor the process.
C11_MalformedDropped ==
  [][(MalformedStep /\ sockUser[last'.sock] \in Users) =>
       /\ UNCHANGED <<activeConnections, userStatus, groupRooms, userGroups,
                      friendRequests>>
       /\ out' = <<>>
       /\ sockState'[last'.sock] = "open"
       /\ running']_vars

\* C12: authentication failure. A connection whose auth step yields no identity
\* is closed, creates no state and emits nothing, and no later event of that
\* connection changes groupRooms, userGroups or friendRequests.
C12_AuthFailure ==
  [][(last'.kind # "start" /\ sockUser'[last'.sock] = NoUser) =>
       /\ last'.kind = "connect"
            => /\ sockState'[last'.sock] = "closed"
               /\ out' = <<>>
               /\ UNCHANGED <<activeConnections, userStatus>>
       /\ UNCHANGED <<groupRooms, userGroups, friendRequests>>]_vars

\* the step handles a send-message with a recipient and a message body
IsDirectMessageStep ==
  /\ last'.kind = "send-message"
  /\ last'.contactId # NoUser
  /\ last'.hasMessage
  /\ (last'.message.content # "" \/ last'.message.fileUrl # "")

\* C13: direct message routing. A well-formed send-message to R emits exactly
\* one receive-message carrying the message object unchanged, to the handle
\* registered for R and to nobody else; when R has no registered session it
\* emits nothing; no store changes; and no connect emits a receive-message.
C13_DirectRouting ==
  [][/\ IsDirectMessageStep =>
          /\ HandlesOf(last'.contactId) = {} => out' = <<>>
          /\ \A h \in HandlesOf(last'.contactId) :
               out' = <<[to |-> h, ev |-> "receive-message",
                         message |-> last'.message]>>
          /\ UNCHANGED <<activeConnections, userStatus, groupRooms, userGroups,
                         friendRequests>>
     /\ last'.kind = "connect"
          => \A i \in 1..Len(out') : out'[i].ev # "receive-message"]_vars

\* C13 witness: a direct message has been delivered to the recipient's handle,
\* another connection than the sender's
C13_Witness ==
  /\ last.kind = "send-message"
  /\ Len(out) = 1
  /\ out[1].to # last.sock
  /\ out[1].to \in HandlesOf(last.contactId)
  /\ out[1].message = last.message

\* how many times x occurs in the array
Occurrences(arr, x) == Cardinality({i \in 1..Len(arr) : arr[i] = x})

\* C14: joinGroup idempotence. A join_room{room_id = G} by an identity u that
\* is already a member of G and has G in its group list (it joined before)
\* leaves groupRooms and userGroups as they are, with u once in membersOf(G)
\* and G once in groupsOf(u).
C14_JoinIdempotent ==
  [][(/\ last'.kind = "join_room"
      /\ last'.room_id \in DOMAIN groupRooms
      /\ sockUser[last'.sock] \in Elems(groupRooms[last'.room_id])
      /\ last'.room_id \in Elems(GroupsOf(userGroups, sockUser[last'.sock])))
       => LET G == last'.room_id
              u == sockUser[last'.sock]
          IN /\ groupRooms' = groupRooms
             /\ userGroups' = userGroups
             /\ Occurrences(groupRooms'[G], u) = 1
             /\ Occurrences(userGroups'[u], G) = 1]_vars

\* the part of C14 that does not count occurrences: a repeated join changes
\* neither list
C14_RepeatedJoinNoChange ==
  [][(/\ last'.kind = "join_room"
      /\ last'.room_id \in DOMAIN groupRooms
      /\ sockUser[last'.sock] \in Elems(groupRooms[last'.room_id])
      /\ last'.room_id \in Elems(GroupsOf(userGroups, sockUser[last'.sock])))
       => /\ groupRooms' = groupRooms
          /\ userGroups' = userGroups]_vars

\* C15: ad-hoc room join. A join_room{room_id = r} for an r that is no created
\* group changes neither groupRooms nor userGroups and emits nothing, the
\* joining connection is in room r afterwards, and a well-formed group_message
\* to r reaches every connection that joined r exactly once.
C15_AdHocJoin ==
  [][/\ (/\ last'.kind = "join_room"
         /\ last'.room_id # NoRoom
         /\ last'.room_id \notin DOMAIN groupRooms)
          => /\ groupRooms' = groupRooms
             /\ userGroups' = userGroups
             /\ out' = <<>>
             /\ last'.sock \in rooms'[last'.room_id]
     /\ (/\ last'.kind = "group_message"
         /\ last'.group_id # NoRoom
         /\ last'.group_id \notin DOMAIN groupRooms
         /\ (last'.content # "" \/ last'.fileUrl # ""))
          => \A h \in Socks :
               Cardinality({i \in 1..Len(out') :
                              /\ out'[i].to = h
                              /\ out'[i].ev = "receive-message"
                              /\ out'[i].group_id = last'.group_id})
                 = IF h \in rooms[last'.group_id] THEN 1 ELSE 0]_vars

\* C15 witness: a connection that joined the ad-hoc room, and is in no group,
\* has received a message broadcast to that room by another connection
C15_Witness ==
  /\ last.kind = "group_message"
  /\ last.group_id = AdHocRoom
  /\ groupRooms = <<>>
  /\ userGroups = <<>>
  /\ \E i \in 1..Len(out) : out[i].to # last.sock /\ out[i].to \in rooms[AdHocRoom]

\* identity A has connected at least once
HasConnected(A) == \E h \in Socks : sockState[h] # "new" /\ sockUser[h] = A

\* C16: presence follows session existence. In every reachable state an
\* identity that has connected at least once has status 'online' exactly when
\* the registry has an entry for it and 'offline' otherwise, an identity that
\* never connected has neither status nor entry, and right after a connect
\* (disconnect) of A the entry is there with 'online' (gone with 'offline').
C16_PresenceFollowsSession ==
  /\ \A A \in Users :
       IF HasConnected(A)
       THEN /\ A \in DOMAIN userStatus
            /\ userStatus[A] \in {"online", "offline"}
            /\ (userStatus[A] = "online") <=> (HandlesOf(A) # {})
       ELSE /\ A \notin DOMAIN userStatus
            /\ HandlesOf(A) = {}
  /\ (last.kind = "connect" /\ last.token # NoUser)
       => userStatus[last.token] = "online" /\ HandlesOf(last.token) = {last.sock}
  /\ (last.kind = "disconnect" /\ sockUser[last.sock] # NoUser)
       => /\ userStatus[sockUser[last.sock]] = "offline"
          /\ HandlesOf(sockUser[last.sock]) = {}

\* C16 witness: A has just disconnected and is offline without an entry, while
\* another identity is online with one
C16_Witness ==
  /\ last.kind = "disconnect"
  /\ sockUser[last.sock] # NoUser
  /\ userStatus[sockUser[last.sock]] = "offline"
  /\ \E B \in Users \ {sockUser[last.sock]} :
       /\ B \in DOMAIN userStatus
       /\ userStatus[B] = "online"
       /\ HandlesOf(B) # {}

\* C17: directional de-duplication. A friend_request from A to B while a (B, A)
\* record is pending and no (A, B) record is appends a new pending (A, B)
\* record and is acked 'sent'; a friend_request_response by B naming A while
\* both (A, B) and (B, A) are pending resolves the (A, B) record only and
\* leaves every other record, the pending (B, A) one included, as it is.
C17_Directional ==
  [][/\ IsFriendRequestStep =>
          LET s == last'.sock
              a == sockUser[last'.sock]
              b == last'.receiver_id
          IN (a # b /\ PendingOf(friendRequests, b, a) # {}
                    /\ PendingOf(friendRequests, a, b) = {})
               => /\ friendRequests' = Append(friendRequests, PendingRecord(a, b))
                  /\ out'[Len(out')] = FriendRequestSent(s, b, "sent")
     /\ IsResponseStep =>
          LET a == last'.sender_id
              b == sockUser[last'.sock]
          IN (a # b /\ PendingOf(friendRequests, a, b) # {}
                    /\ PendingOf(friendRequests, b, a) # {})
               => /\ Len(friendRequests') = Len(friendRequests)
                  /\ PendingOf(friendRequests', a, b) = {}
                  /\ PendingOf(friendRequests', b, a) = PendingOf(friendRequests, b, a)
                  /\ \A i \in 1..Len(friendRequests) :
                       i \notin PendingOf(friendRequests, a, b)
                         => friendRequests'[i] = friendRequests[i]]_vars

\* C17 witness: B has just resolved A's request, which was appended after B's
\* own request to A, and B's request to A is still pending
C17_Witness ==
  /\ last.kind = "friend_request_response"
  /\ last.sender_id # NoUser
  /\ last.sender_id # sockUser[last.sock]
  /\ Len(friendRequests) = 2
  /\ friendRequests[1] = PendingRecord(sockUser[last.sock], last.sender_id)
  /\ friendRequests[2].sender_id = last.sender_id
  /\ friendRequests[2].receiver_id = sockUser[last.sock]
  /\ friendRequests[2].status # "pending"

\* C18: no duplicate members. In every reachable state no group's member list
\* holds an identity twice and no identity's group list holds a group twice.
C18_NoDuplicates ==
  /\ \A g \in DOMAIN groupRooms : \A u \in Elems(groupRooms[g]) :
       Occurrences(groupRooms[g], u) = 1
  /\ \A u \in DOMAIN userGroups : \A g \in Elems(userGroups[u]) :
       Occurrences(userGroups[u], g) = 1

\* the handles the registry ac holds for identity u
HandlesIn(ac, u) == {e[2] : e \in {x \in ac : x[1] = u}}

\* C19: superseded disconnect. When a connection h1 of identity A disconnects
\* while the registry holds another, still open handle h2 for A (h2 connected
\* after h1 and replaced it), the registry still holds h2 for A afterwards and
\* A's status stays 'online'.
C19_SupersededDisconnect ==
  [][(last'.kind = "disconnect" /\ sockUser[last'.sock] \in Users) =>
       LET A == sockUser[last'.sock]
       IN \A h2 \in Socks \ {last'.sock} :
            (HandlesIn(activeConnections, A) = {h2} /\ sockState[h2] = "open")
              => /\ HandlesIn(activeConnections', A) = {h2}
                 /\ userStatus'[A] = "online"]_vars

\* C20: no stale handle. In every reachable state every handle stored in the
\* registry is an open connection of the identity it is stored for, and every
\* event emitted by the last step went to a connection that is open.
C20_NoStaleHandle ==
  /\ \A e \in activeConnections : sockState[e[2]] = "open" /\ sockUser[e[2]] = e[1]
  /\ \A i \in 1..Len(out) : sockState[out[i].to] = "open"

\* C20 witness: a direct message or friend request notification has just been
\* delivered to the registered handle of an identity one of whose earlier
\* connections has disconnected
C20_Witness ==
  /\ last.kind \in {"send-message", "friend_request"}
  /\ \E i \in 1..Len(out) :
       /\ out[i].ev \in {"receive-message", "friend_request"}
       /\ out[i].to # last.sock
       /\ \E h \in Socks : /\ sockState[h] = "closed"
                           /\ sockUser[h] = sockUser[out[i].to]

====
